---- MODULE Spec2Model ----
(***************************************************************************)
(* Audius reward manager: the secp256k1 quorum verifier of                 *)
(* program/src/utils.rs and the registry handlers of src/processor.rs.     *)
(*                                                                         *)
(* Byte strings are sequences of naturals below 256.  An Ethereum address  *)
(* is a sequence of EthAddrLen bytes, a secp256k1 instruction is the       *)
(* sequence of bytes of its data.  A ProgramResult is the string "Ok", the *)
(* name of the error variant returned, or "Panic" for a Rust panic (an     *)
(* abort that is no value of the error enumerations).                      *)
(***************************************************************************)
EXTENDS Integers, Sequences, FiniteSets, TLC

VARIABLES
    \* ---- a call of the transfer verifier (utils.rs) ----
    instructions,   \* Vec<Instruction>: the data of each secp256k1 instruction
    signers,        \* Vec<EthereumAddress>: the expected senders
    operators,      \* BTreeSet<EthereumAddress>: the seeded operator set
    bot_oracle,     \* SenderAccount of the oracle
    transfer_data,  \* Transfer {eth_recipient, amount, id}
    signer_accounts,\* Vec<&AccountInfo>: the sender accounts get_eth_addresses reads
    aresult,        \* "none" before get_eth_addresses ran, then its result
    vresult,        \* "none" before the call, then the verifier's ProgramResult
    \* ---- the accounts the processor works on (processor.rs) ----
    reward_manager, \* registry account -> its RewardManager data
    sender_data,    \* account address -> SenderAccount data, or NoData
    lamports,       \* account -> balance (u64, scaled to LamportBits bits)
    last            \* the last processor call: its request and its result

vars == <<instructions, signers, operators, bot_oracle, transfer_data,
          signer_accounts, aresult, vresult, reward_manager, sender_data, lamports, last>>

verifier_vars == <<instructions, signers, operators, bot_oracle, transfer_data,
                   signer_accounts, aresult, vresult>>

processor_vars == <<reward_manager, sender_data, lamports, last>>

----------------------------------------------------------------------------
(* Bounds of the model *)

\* longest batch of secp256k1 instructions handed to a verifier
MaxBatch == 3
\* longest list of expected senders
MaxSigners == 2
\* largest minimum_votes a registry is initialized with
MaxVotes == 1
\* the width in bits the u64 balances are scaled to
LamportBits == 3
\* most instructions in a transaction
MaxTx == 3

(* Program constants *)

\* EthereumAddress = [u8; 20]
EthAddrLen == 20
\* get_signer_from_secp_instruction: eth_address_offset
eth_address_offset == 12
\* validate_eth_signature: message_data_offset
message_data_offset == 97
\* the byte of b"_"
Underscore == 95
\* u64::to_le_bytes yields 8 bytes
U64Bytes == 8
\* a Pubkey is 32 bytes (reward_manager.to_bytes()[..32])
PubkeyLen == 32
\* the radix of bs58::encode
Bs58Base == 58
\* solana_program::pubkey::MAX_SEED_LEN, the bound of Pubkey::create_with_seed
MAX_SEED_LEN == 32
\* rent.minimum_balance(SenderAccount::LEN), in the scaled unit of the balances
RentMinimum == 1

----------------------------------------------------------------------------
(* Bytes *)

Range(s) == {s[i] : i \in 1..Len(s)}

Zeros(n) == [i \in 1..n |-> 0]

\* an address all of whose bytes are b
Addr(b) == [i \in 1..EthAddrLen |-> b]

\* n.to_le_bytes() on k bytes
RECURSIVE to_le_bytes(_, _)
to_le_bytes(n, k) ==
    IF k = 0 THEN <<>> ELSE <<n % 256>> \o to_le_bytes(n \div 256, k - 1)

\* [a, b, ...].concat()
RECURSIVE concat(_)
concat(parts) ==
    IF parts = <<>> THEN <<>> ELSE Head(parts) \o concat(Tail(parts))

\* data[from..] and data[from..to] with Rust's 0-based half-open ranges
slice(data, from, to) == SubSeq(data, from + 1, to)

----------------------------------------------------------------------------
(* The identities and intents the inputs are drawn from *)

S1 == Addr(1)
S2 == Addr(2)
ORACLE == Addr(3)
UNKNOWN == Addr(4)
O1 == Addr(11)
O2 == Addr(12)
O3 == Addr(13)
\* the operator of a record built without one
NO_OPERATOR == Addr(0)

\* the intent under verification and a different one
T1 == [eth_recipient |-> Addr(7), amount |-> 10000, id |-> <<97, 98, 99>>]
T2 == [eth_recipient |-> Addr(7), amount |-> 10001, id |-> <<97, 98, 99>>]

----------------------------------------------------------------------------
(* utils.rs: address derivation.  A Pubkey is a record: a key pair's names *)
(* the byte its PubkeyLen bytes repeat, a derived one holds what was       *)
(* hashed (the hash is taken to be injective).                             *)

\* a key pair's public key, all of whose bytes are b
Pk(b) == [kind |-> "keypair", byte |-> b]

\* Pubkey::to_bytes of a key pair's public key
to_bytes(pubkey) == [i \in 1..PubkeyLen |-> pubkey.byte]

PROGRAM_ID == Pk(100)
RM1 == Pk(1)
MANAGER == Pk(3)
INTRUDER == Pk(4)

\* one step of the long division of a big-endian base-256 number by 58
RECURSIVE div58(_, _, _)
div58(bytes, rem, quot) ==
    IF bytes = <<>> THEN [q |-> quot, r |-> rem]
    ELSE LET cur == rem * 256 + Head(bytes) IN
         div58(Tail(bytes), cur % Bs58Base, Append(quot, cur \div Bs58Base))

RECURSIVE leading_zeros(_)
leading_zeros(bytes) ==
    IF bytes = <<>> \/ Head(bytes) # 0 THEN 0 ELSE 1 + leading_zeros(Tail(bytes))

\* the base-58 digits of a big-endian number, most significant first
RECURSIVE bs58_digits(_)
bs58_digits(bytes) ==
    IF \A i \in 1..Len(bytes) : bytes[i] = 0 THEN <<>>
    ELSE LET d == div58(bytes, 0, <<>>) IN Append(bs58_digits(d.q), d.r)

\* bs58::encode(bytes).into_string(): a character is written as its index in the
\* alphabet; each leading zero byte gives one leading '1' (index 0)
bs58_into_string(bytes) == Zeros(leading_zeros(bytes)) \o bs58_digits(bytes)

\* the fixed prefix of a sender's seed, processor::SENDER_SEED_PREFIX ("S_")
SENDER_SEED_PREFIX == <<83, Underscore>>

\* the encodings of the seeds the model derives addresses from, computed once
Bs58Table ==
    {<<b, bs58_into_string(b)>> :
        b \in {Addr(x) : x \in 1..4} \cup {SENDER_SEED_PREFIX \o Addr(x) : x \in 1..4}}

bs58_encode(bytes) ==
    IF \E p \in Bs58Table : p[1] = bytes
    THEN (CHOOSE p \in Bs58Table : p[1] = bytes)[2]
    ELSE bs58_into_string(bytes)

\* Pubkey::find_program_address(seeds, program_id)
find_program_address(seeds, program_id) ==
    [address |-> [kind |-> "pda", seeds |-> seeds, program |-> program_id],
     bump |-> <<"bump", seeds, program_id>>]

\* Pubkey::create_with_seed(base, seed, owner)
create_with_seed(base, seed, owner) ==
    IF Len(seed) > MAX_SEED_LEN
    THEN [err |-> "MaxSeedLengthExceeded"]
    ELSE [err |-> "Ok",
          address |-> [kind |-> "seeded", base |-> base, seed |-> seed, owner |-> owner]]

get_base_address(program_id, rm) ==
    LET r == find_program_address(<<slice(to_bytes(rm), 0, PubkeyLen)>>, program_id) IN
    [address |-> r.address, seed |-> r.bump]

get_derived_address(program_id, base, seeds) ==
    LET eseed == bs58_encode(seeds)
        r == create_with_seed(base, eseed, program_id)
    IN  IF r.err # "Ok" THEN r ELSE [err |-> "Ok", address |-> r.address, seed |-> eseed]

get_address_pair(program_id, rm, seed) ==
    LET base == get_base_address(program_id, rm)
        derived == get_derived_address(program_id, base.address, seed)
    IN  IF derived.err # "Ok" THEN [err |-> derived.err]
        ELSE [err |-> "Ok", base |-> base,
              derive |-> [address |-> derived.address, seed |-> derived.seed]]

----------------------------------------------------------------------------
(* utils.rs: the messages *)

bot_oracle_message(td) ==
    concat(<< td.eth_recipient, <<Underscore>>, to_le_bytes(td.amount, U64Bytes),
              <<Underscore>>, td.id >>)

senders_message(td, oracle) ==
    concat(<< td.eth_recipient, <<Underscore>>, to_le_bytes(td.amount, U64Bytes),
              <<Underscore>>, td.id, <<Underscore>>, oracle.eth_address >>)

(* utils.rs: reading a secp256k1 instruction *)

\* the slice [12..32] panics on a shorter blob
get_signer_panics(data) == Len(data) < eth_address_offset + EthAddrLen

get_signer_from_secp_instruction(data) ==
    slice(data, eth_address_offset, eth_address_offset + EthAddrLen)

\* the slice [97..] panics on a shorter blob
validate_panics(data) == Len(data) < message_data_offset

validate_eth_signature(expected_message, data) ==
    IF validate_panics(data) THEN "Panic"
    ELSE IF slice(data, message_data_offset, Len(data)) # expected_message
         THEN "SignatureVerificationFailed"
         ELSE "Ok"

(* utils.rs: the checklist *)

vec_into_checkmap(vec) == [a \in Range(vec) |-> FALSE]

\* mutant: a signer met again is accepted again
check_signer_no_collision(checkmap, eth_signer) ==
    IF eth_signer \in DOMAIN checkmap
    THEN [res |-> "Ok", checkmap |-> [checkmap EXCEPT ![eth_signer] = TRUE]]
    ELSE [res |-> "WrongSigner", checkmap |-> checkmap]

check_signer(checkmap, eth_signer) ==
    IF eth_signer \in DOMAIN checkmap
    THEN IF ~checkmap[eth_signer]
         THEN [res |-> "Ok", checkmap |-> [checkmap EXCEPT ![eth_signer] = TRUE]]
         ELSE [res |-> "SignCollission", checkmap |-> checkmap]
    ELSE [res |-> "WrongSigner", checkmap |-> checkmap]

----------------------------------------------------------------------------
(* utils.rs: build_verify_secp_transfer.  The closure's loop is a fold over *)
(* the instructions of a record st: res is "Ok" until a `?` or a return    *)
(* leaves the closure.                                                      *)

\* mutant: an oracle proof with another payload is skipped, not refused
transfer_oracle_arm_skips_bad(st, data, eth_signer, oracle, td) ==
    IF eth_signer # oracle.eth_address THEN st
    ELSE LET v == validate_eth_signature(bot_oracle_message(td), data) IN
         IF v # "Ok" THEN st
         ELSE IF oracle.operator \in st.operators
              THEN [st EXCEPT !.res = "OperatorCollision"]
              ELSE [st EXCEPT !.operators = @ \cup {oracle.operator},
                              !.successful_verifications = @ + 1]

\* if eth_signer == bot_oracle.eth_address { ... }
transfer_oracle_arm(st, data, eth_signer, oracle, td) ==
    IF eth_signer # oracle.eth_address THEN st
    ELSE LET v == validate_eth_signature(bot_oracle_message(td), data) IN
         IF v # "Ok" THEN [st EXCEPT !.res = v]
         ELSE IF oracle.operator \in st.operators
              THEN [st EXCEPT !.res = "OperatorCollision"]
              ELSE [st EXCEPT !.operators = @ \cup {oracle.operator},
                              !.successful_verifications = @ + 1]

\* mutant: every proof is checked against the checklist
transfer_sender_arm_checks_all(st, data, eth_signer, sgn, oracle, td) ==
    IF st.res # "Ok" \/ eth_signer = oracle.eth_address THEN st
    ELSE LET c == check_signer(st.checkmap, eth_signer) IN
         IF c.res # "Ok" THEN [st EXCEPT !.res = c.res]
         ELSE LET v == validate_eth_signature(senders_message(td, oracle), data) IN
              IF v # "Ok" THEN [st EXCEPT !.res = v, !.checkmap = c.checkmap]
              ELSE [st EXCEPT !.checkmap = c.checkmap,
                              !.successful_verifications = @ + 1]

\* if signers.contains(&eth_signer) { ... }
transfer_sender_arm(st, data, eth_signer, sgn, oracle, td) ==
    IF st.res # "Ok" \/ eth_signer \notin Range(sgn) THEN st
    ELSE LET c == check_signer(st.checkmap, eth_signer) IN
         IF c.res # "Ok" THEN [st EXCEPT !.res = c.res]
         ELSE LET v == validate_eth_signature(senders_message(td, oracle), data) IN
              IF v # "Ok" THEN [st EXCEPT !.res = v, !.checkmap = c.checkmap]
              ELSE [st EXCEPT !.checkmap = c.checkmap,
                              !.successful_verifications = @ + 1]

\* mutant: the loop is left once the count is reached
transfer_step_stops_when_full(st, data, sgn, oracle, td) ==
    IF st.successful_verifications = Len(sgn) + 1 THEN st
    ELSE IF get_signer_panics(data) THEN [st EXCEPT !.res = "Panic"]
    ELSE LET eth_signer == get_signer_from_secp_instruction(data) IN
         transfer_sender_arm(transfer_oracle_arm(st, data, eth_signer, oracle, td),
                             data, eth_signer, sgn, oracle, td)

\* the body of `for instruction in instructions`
transfer_step(st, data, sgn, oracle, td) ==
    IF get_signer_panics(data) THEN [st EXCEPT !.res = "Panic"]
    ELSE LET eth_signer == get_signer_from_secp_instruction(data) IN
         transfer_sender_arm(transfer_oracle_arm(st, data, eth_signer, oracle, td),
                             data, eth_signer, sgn, oracle, td)

RECURSIVE transfer_loop(_, _, _, _, _)
transfer_loop(st, instrs, sgn, oracle, td) ==
    IF st.res # "Ok" \/ instrs = <<>> THEN st
    ELSE transfer_loop(transfer_step(st, Head(instrs), sgn, oracle, td),
                       Tail(instrs), sgn, oracle, td)

\* the closure's locals when the loop is left
transfer_final(oracle, td, instrs, sgn, ops) ==
    transfer_loop([res |-> "Ok", successful_verifications |-> 0,
                   checkmap |-> vec_into_checkmap(sgn), operators |-> ops],
                  instrs, sgn, oracle, td)

\* mutant: the oracle's signature is left out of the count
count_check_without_oracle(successful_verifications, sgn) ==
    IF successful_verifications # Len(sgn)
    THEN "SignatureVerificationFailed" ELSE "Ok"

\* the final count check: successful_verifications != signers.len() + 1
count_check(successful_verifications, sgn) ==
    IF successful_verifications # Len(sgn) + 1
    THEN "SignatureVerificationFailed" ELSE "Ok"

\* build_verify_secp_transfer(bot_oracle, transfer_data)(instructions, signers, operators)
build_verify_secp_transfer(oracle, td, instrs, sgn, ops) ==
    LET st == transfer_final(oracle, td, instrs, sgn, ops) IN
    IF st.res # "Ok" THEN st.res
    ELSE count_check(st.successful_verifications, sgn)

----------------------------------------------------------------------------
(* utils.rs: get_eth_addresses.  An account is [key, owner, data]; data is  *)
(* a SenderAccount record, or NoData where try_from_slice fails.            *)

NoData == [is_initialized |-> FALSE, empty |-> TRUE]

\* mutant: the result of operators.insert is dropped
eth_addresses_step_any_operator(st, program_id, rm_key, signer) ==
    IF signer.data = NoData THEN [st EXCEPT !.res = "BorshIoError"]
    ELSE IF ~signer.data.is_initialized THEN [st EXCEPT !.res = "UninitializedAccount"]
    ELSE IF signer.owner # program_id THEN [st EXCEPT !.res = "IncorrectProgramId"]
    ELSE LET generated_sender_key ==
                 get_address_pair(program_id, rm_key,
                                  concat(<<SENDER_SEED_PREFIX, signer.data.eth_address>>))
         IN  IF generated_sender_key.err # "Ok"
             THEN [st EXCEPT !.res = generated_sender_key.err]
             ELSE IF generated_sender_key.derive.address # signer.key
             THEN [st EXCEPT !.res = "InvalidSeeds"]
             ELSE IF signer.data.eth_address \in Range(st.senders_eth_addresses)
             THEN [st EXCEPT !.res = "RepeatedSenders"]
             ELSE [st EXCEPT !.operators = @ \cup {signer.data.operator},
                             !.senders_eth_addresses = Append(@, signer.data.eth_address)]

\* the body of `for signer in signers`; st = [res, senders_eth_addresses, operators]
eth_addresses_step(st, program_id, rm_key, signer) ==
    IF signer.data = NoData THEN [st EXCEPT !.res = "BorshIoError"]
    ELSE IF ~signer.data.is_initialized THEN [st EXCEPT !.res = "UninitializedAccount"]
    ELSE IF signer.owner # program_id THEN [st EXCEPT !.res = "IncorrectProgramId"]
    ELSE LET generated_sender_key ==
                 get_address_pair(program_id, rm_key,
                                  concat(<<SENDER_SEED_PREFIX, signer.data.eth_address>>))
         IN  IF generated_sender_key.err # "Ok"
             THEN [st EXCEPT !.res = generated_sender_key.err]
             ELSE IF generated_sender_key.derive.address # signer.key
             THEN [st EXCEPT !.res = "InvalidSeeds"]
             ELSE IF signer.data.eth_address \in Range(st.senders_eth_addresses)
             THEN [st EXCEPT !.res = "RepeatedSenders"]
             ELSE IF signer.data.operator \in st.operators
             THEN [st EXCEPT !.res = "OperatorCollision"]
             ELSE [st EXCEPT !.operators = @ \cup {signer.data.operator},
                             !.senders_eth_addresses = Append(@, signer.data.eth_address)]

RECURSIVE eth_addresses_loop(_, _, _, _)
eth_addresses_loop(st, program_id, rm_key, accts) ==
    IF st.res # "Ok" \/ accts = <<>> THEN st
    ELSE eth_addresses_loop(eth_addresses_step(st, program_id, rm_key, Head(accts)),
                            program_id, rm_key, Tail(accts))

\* [res, senders_eth_addresses, operators]: the pair is returned when res = "Ok"
get_eth_addresses(program_id, rm_key, accts) ==
    eth_addresses_loop([res |-> "Ok", senders_eth_addresses |-> <<>>, operators |-> {}],
                       program_id, rm_key, accts)

----------------------------------------------------------------------------
(* The inputs of a verifier call *)

\* the sequences over S of length at most n
SeqsUpTo(S, n) == UNION {[1..k -> S] : k \in 0..n}

\* the data of a secp256k1 instruction: meta (12) + address (20) + signature (65),
\* then the signed message
secp_instruction(eth_address, message) ==
    concat(<< Zeros(eth_address_offset), eth_address,
              Zeros(message_data_offset - eth_address_offset - EthAddrLen), message >>)

\* a SenderAccount (state.rs, as used in utils.rs and processor.rs)
SenderAccount(rm, eth_address, operator) ==
    [is_initialized |-> TRUE, reward_manager |-> rm,
     eth_address |-> eth_address, operator |-> operator]

\* the instructions a batch is made of: every known identity over each of the two
\* messages of the intent (S2 over the senders' message only), an unknown
\* identity, a sender over another intent's message, and two blobs cut short of
\* the fixed header
ProofPool(td, oracle) ==
    LET sm == senders_message(td, oracle)
        bm == bot_oracle_message(td)
    IN  {secp_instruction(a, m) : a \in {S1, ORACLE}, m \in {sm, bm}}
        \cup {secp_instruction(S2, sm),
              secp_instruction(UNKNOWN, sm),
              secp_instruction(S1, senders_message(T2, oracle)),
              SubSeq(secp_instruction(S1, sm), 1, eth_address_offset),
              SubSeq(secp_instruction(S1, sm), 1, message_data_offset - 1)}

\* a RewardManager (state.rs, as used in processor.rs)
RewardManager(token_account, manager, votes) ==
    [is_initialized |-> TRUE, token_account |-> token_account,
     manager |-> manager, min_votes |-> votes]

TOKEN_ACCOUNT == Pk(5)
TOKEN_ACCOUNT_2 == Pk(6)

\* the zeroed data of a registry account that was never initialized
UninitializedRewardManager ==
    [is_initialized |-> FALSE, token_account |-> Pk(0), manager |-> Pk(0), min_votes |-> 0]

\* the registry accounts
Regs == {RM1}

Oracles == {SenderAccount(RM1, ORACLE, op) : op \in {O1, O3}}

\* the processor's accounts while a verifier call is examined: registry RM1 is
\* initialized with the given minimum_votes, nothing else exists
InitRegistryOnly(votes) ==
    /\ reward_manager = [r \in Regs |-> RewardManager(TOKEN_ACCOUNT, MANAGER, votes)]
    /\ sender_data = <<>>
    /\ lamports = <<>>
    /\ last = [op |-> "none"]

\* a call of the closure on arbitrary arguments
InitVerify ==
    /\ transfer_data = T1
    /\ bot_oracle \in Oracles
    /\ instructions \in SeqsUpTo(ProofPool(transfer_data, bot_oracle), MaxBatch)
    /\ signers \in SeqsUpTo({S1, S2, ORACLE}, MaxSigners)
    /\ operators \in SUBSET {O1}
    /\ signer_accounts = <<>>
    /\ aresult = "Ok"
    /\ vresult = "none"
    /\ InitRegistryOnly(1)

\* the verifier closure is called with the extracted instructions, the expected
\* senders and the seeded operators
VerifyTransfer ==
    /\ aresult = "Ok"
    /\ vresult = "none"
    /\ vresult' = build_verify_secp_transfer(bot_oracle, transfer_data,
                                             instructions, signers, operators)
    /\ UNCHANGED <<instructions, signers, operators, bot_oracle, transfer_data,
                   signer_accounts, aresult>>
    /\ UNCHANGED processor_vars

NextVerify == VerifyTransfer

SpecVerify == InitVerify /\ [][NextVerify]_vars

----------------------------------------------------------------------------
(* utils.rs: build_verify_secp_add_sender, called on arbitrary arguments.   *)
(* The closure's context (registry key, new sender) is held in last.        *)

\* [reward_manager_key.as_ref(), new_sender.as_ref()].concat()
add_sender_message(reward_manager_key, new_sender) ==
    concat(<<to_bytes(reward_manager_key), new_sender>>)

\* the body of `for instruction in instructions`; st = [res, checkmap]
add_sender_step(st, data, expected_message) ==
    IF get_signer_panics(data) THEN [st EXCEPT !.res = "Panic"]
    ELSE LET eth_signer == get_signer_from_secp_instruction(data)
             c == check_signer(st.checkmap, eth_signer)
         IN  IF c.res # "Ok" THEN [st EXCEPT !.res = c.res]
             ELSE [res |-> validate_eth_signature(expected_message, data),
                   checkmap |-> c.checkmap]

RECURSIVE add_sender_loop(_, _, _)
add_sender_loop(st, instrs, expected_message) ==
    IF st.res # "Ok" \/ instrs = <<>> THEN st
    ELSE add_sender_loop(add_sender_step(st, Head(instrs), expected_message),
                         Tail(instrs), expected_message)

\* build_verify_secp_add_sender(reward_manager_key, new_sender)(instructions, signers, _operators)
build_verify_secp_add_sender(reward_manager_key, new_sender, instrs, sgn, ops) ==
    add_sender_loop([res |-> "Ok", checkmap |-> vec_into_checkmap(sgn)], instrs,
                    add_sender_message(reward_manager_key, new_sender)).res

\* the instructions of an add-sender batch: S1 and S2 over the mutation message,
\* S1 over the message for another new sender, an undeclared identity, a blob cut
\* short of the identity
AddSenderPool(reward_manager_key, new_sender) ==
    LET m == add_sender_message(reward_manager_key, new_sender) IN
    {secp_instruction(S1, m), secp_instruction(S2, m),
     secp_instruction(S1, add_sender_message(reward_manager_key, ORACLE)),
     secp_instruction(UNKNOWN, m),
     SubSeq(secp_instruction(S1, m), 1, eth_address_offset)}

InitAddSender ==
    /\ last = [op |-> "VerifyAddSender", reward_manager_key |-> RM1, new_sender |-> UNKNOWN]
    /\ instructions \in SeqsUpTo(AddSenderPool(last.reward_manager_key, last.new_sender),
                                 MaxBatch)
    /\ signers \in SeqsUpTo({S1, S2}, MaxSigners)
    /\ operators = {}
    /\ bot_oracle = SenderAccount(RM1, ORACLE, O3)
    /\ transfer_data = T1
    /\ signer_accounts = <<>>
    /\ aresult = "Ok"
    /\ vresult = "none"
    /\ reward_manager = [r \in Regs |-> RewardManager(TOKEN_ACCOUNT, MANAGER, 1)]
    /\ sender_data = <<>>
    /\ lamports = <<>>

VerifyAddSender ==
    /\ vresult = "none"
    /\ vresult' = build_verify_secp_add_sender(last.reward_manager_key, last.new_sender,
                                               instructions, signers, operators)
    /\ UNCHANGED <<instructions, signers, operators, bot_oracle, transfer_data,
                   signer_accounts, aresult>>
    /\ UNCHANGED processor_vars

NextAddSender == VerifyAddSender

SpecAddSender == InitAddSender /\ [][NextAddSender]_vars

----------------------------------------------------------------------------
(* utils.rs: get_secp_instructions.  A transaction is the sequence of its   *)
(* instructions [program_id, data], as the instructions sysvar holds it;    *)
(* the request is held in last.                                             *)

\* secp256k1_program::id()
SECP256K1_PROGRAM == Pk(102)

\* sysvar::instructions::load_instruction_at(ind, ..).map_err(to_audius_program_error)
load_instruction_at(ind, tx) ==
    IF ind >= Len(tx) THEN [err |-> "InstructionLoadError"]
    ELSE [err |-> "Ok", instruction |-> tx[ind + 1]]

\* `for ind in 0..index_current_instruction`, from ind on; st = [res, secp_instructions]
RECURSIVE secp_instructions_loop(_, _, _, _)
secp_instructions_loop(st, ind, index_current_instruction, tx) ==
    IF st.res # "Ok" \/ ind >= index_current_instruction THEN st
    ELSE LET l == load_instruction_at(ind, tx) IN
         IF l.err # "Ok"
         THEN [st EXCEPT !.res = l.err]
         ELSE secp_instructions_loop(
                  IF l.instruction.program_id = SECP256K1_PROGRAM
                  THEN [st EXCEPT !.secp_instructions = Append(@, l.instruction)]
                  ELSE st,
                  ind + 1, index_current_instruction, tx)

\* mutant: only too few instructions are refused
get_secp_instructions_at_least(index_current_instruction, necessary_instructions_count, tx) ==
    LET st == secp_instructions_loop([res |-> "Ok", secp_instructions |-> <<>>], 0,
                                     index_current_instruction, tx)
    IN  IF st.res # "Ok" THEN [res |-> st.res, secp_instructions |-> <<>>]
        ELSE IF Len(st.secp_instructions) < necessary_instructions_count
        THEN [res |-> "Secp256InstructionMissing", secp_instructions |-> <<>>]
        ELSE st

\* get_secp_instructions: [res, secp_instructions], the vector returned when res = "Ok"
get_secp_instructions(index_current_instruction, necessary_instructions_count, tx) ==
    LET st == secp_instructions_loop([res |-> "Ok", secp_instructions |-> <<>>], 0,
                                     index_current_instruction, tx)
    IN  IF st.res # "Ok" THEN [res |-> st.res, secp_instructions |-> <<>>]
        ELSE IF Len(st.secp_instructions) # necessary_instructions_count
        THEN [res |-> "Secp256InstructionMissing", secp_instructions |-> <<>>]
        ELSE st

\* the instructions of a transaction: two secp256k1 instructions and one of
\* this program
TxPool ==
    {[program_id |-> SECP256K1_PROGRAM,
      data |-> secp_instruction(S1, senders_message(T1, SenderAccount(RM1, ORACLE, O3)))],
     [program_id |-> SECP256K1_PROGRAM,
      data |-> secp_instruction(ORACLE, bot_oracle_message(T1))],
     [program_id |-> PROGRAM_ID, data |-> <<>>]}

\* a request: the transaction, the index in it of the instruction being
\* processed, and the number of secp256k1 instructions it declares
ExtractRequests ==
    {[op |-> "GetSecpInstructions", tx |-> tx, index_current_instruction |-> ind,
      necessary_instructions_count |-> n] :
        tx \in SeqsUpTo(TxPool, MaxTx) \ {<<>>}, ind \in 0..(MaxTx - 1), n \in 0..MaxTx}

InitExtract ==
    /\ last \in {rq \in ExtractRequests : rq.index_current_instruction < Len(rq.tx)}
    /\ instructions = <<>>
    /\ signers = <<>>
    /\ operators = {}
    /\ bot_oracle = SenderAccount(RM1, ORACLE, O3)
    /\ transfer_data = T1
    /\ signer_accounts = <<>>
    /\ aresult = "none"
    /\ vresult = "none"
    /\ reward_manager = [r \in Regs |-> RewardManager(TOKEN_ACCOUNT, MANAGER, 1)]
    /\ sender_data = <<>>
    /\ lamports = <<>>

\* the extraction; aresult holds its result, instructions the data of the
\* instructions returned
GetSecpInstructions ==
    /\ aresult = "none"
    /\ LET r == get_secp_instructions(last.index_current_instruction,
                                      last.necessary_instructions_count, last.tx)
       IN  /\ aresult' = r.res
           /\ instructions' = [i \in 1..Len(r.secp_instructions) |->
                                  r.secp_instructions[i].data]
    /\ UNCHANGED <<signers, operators, bot_oracle, transfer_data, signer_accounts, vresult>>
    /\ UNCHANGED processor_vars

NextExtract == GetSecpInstructions

SpecExtract == InitExtract /\ [][NextExtract]_vars

----------------------------------------------------------------------------
(* utils.rs: the two messages of the transfer closure, built for two        *)
(* intents and oracles; the second intent, its oracle and the four messages *)
(* are held in last.                                                        *)

\* the ids of the intents: short strings, the empty one, "_", and "a" followed
\* by "_" and the bytes of an identity
TransferIds ==
    {<<97>>, <<97, 98>>, <<>>, <<Underscore>>,
     concat(<< <<97>>, <<Underscore>>, ORACLE >>)}

Transfers ==
    {[eth_recipient |-> r, amount |-> a, id |-> id] :
        r \in {Addr(7), Addr(8)}, a \in {10000, 10001}, id \in TransferIds}

OraclesOfCodec == {SenderAccount(RM1, a, O3) : a \in {ORACLE, S1}}

InitCodec ==
    /\ transfer_data \in Transfers
    /\ bot_oracle \in OraclesOfCodec
    /\ last \in {[op |-> "BuildMessages", transfer_data |-> td, bot_oracle |-> o] :
                    td \in Transfers, o \in OraclesOfCodec}
    /\ instructions = <<>>
    /\ signers = <<>>
    /\ operators = {}
    /\ signer_accounts = <<>>
    /\ aresult = "none"
    /\ vresult = "none"
    /\ reward_manager = [r \in Regs |-> RewardManager(TOKEN_ACCOUNT, MANAGER, 1)]
    /\ sender_data = <<>>
    /\ lamports = <<>>

\* the closures of the two intents build their messages
BuildMessages ==
    /\ last.op = "BuildMessages"
    /\ last' = [op |-> "Built", transfer_data |-> last.transfer_data,
                bot_oracle |-> last.bot_oracle,
                bot_oracle_message |-> bot_oracle_message(transfer_data),
                senders_message |-> senders_message(transfer_data, bot_oracle),
                other_bot_oracle_message |-> bot_oracle_message(last.transfer_data),
                other_senders_message |->
                    senders_message(last.transfer_data, last.bot_oracle)]
    /\ UNCHANGED verifier_vars
    /\ UNCHANGED <<reward_manager, sender_data, lamports>>

NextCodec == BuildMessages

SpecCodec == InitCodec /\ [][NextCodec]_vars

----------------------------------------------------------------------------
(* A verification of a transfer for registry RM1: the expected senders and  *)
(* the seeded operators are what get_eth_addresses returns for the sender   *)
(* accounts the caller passes, as the VerifierFn's parameters take them.    *)

\* the address of the sender account of eth_address under rm
sender_key(rm, eth_address) ==
    get_address_pair(PROGRAM_ID, rm,
                     concat(<<SENDER_SEED_PREFIX, eth_address>>)).derive.address

sender_account(eth_address, operator) ==
    [key |-> sender_key(RM1, eth_address), owner |-> PROGRAM_ID,
     data |-> SenderAccount(RM1, eth_address, operator)]

\* the sender accounts a caller passes: S1 and S2 with distinct operators, S2
\* with S1's operator, an uninitialized one, and one at an underived address
AccountPool ==
    {sender_account(S1, O1), sender_account(S2, O2), sender_account(S2, O1),
     [sender_account(S1, O1) EXCEPT !.data.is_initialized = FALSE],
     [sender_account(S1, O2) EXCEPT !.key = Pk(9)]}

QuorumPool(td, oracle) ==
    {secp_instruction(S1, senders_message(td, oracle)),
     secp_instruction(S2, senders_message(td, oracle)),
     secp_instruction(ORACLE, bot_oracle_message(td)),
     secp_instruction(UNKNOWN, senders_message(td, oracle))}

InitQuorum ==
    /\ transfer_data = T1
    /\ bot_oracle \in Oracles
    /\ instructions \in SeqsUpTo(QuorumPool(transfer_data, bot_oracle), MaxBatch)
    /\ signer_accounts \in SeqsUpTo(AccountPool, MaxSigners)
    /\ signers = <<>>
    /\ operators = {}
    /\ aresult = "none"
    /\ vresult = "none"
    /\ \E votes \in 0..MaxVotes : InitRegistryOnly(votes)

GetEthAddresses ==
    /\ aresult = "none"
    /\ LET r == get_eth_addresses(PROGRAM_ID, RM1, signer_accounts) IN
       /\ aresult' = r.res
       /\ signers' = IF r.res = "Ok" THEN r.senders_eth_addresses ELSE signers
       /\ operators' = IF r.res = "Ok" THEN r.operators ELSE operators
    /\ UNCHANGED <<instructions, bot_oracle, transfer_data, signer_accounts, vresult>>
    /\ UNCHANGED processor_vars

NextQuorum == GetEthAddresses \/ VerifyTransfer

SpecQuorum == InitQuorum /\ [][NextQuorum]_vars

----------------------------------------------------------------------------
(* processor.rs: the registry handlers.  Each handler is an operator from   *)
(* the accounts and the request to [res, reward_manager, sender_data,       *)
(* lamports]: the accounts are as before unless res = "Ok".                 *)

REFUND == Pk(8)

\* u64 arithmetic of the lamports, on LamportBits bits
U64Modulus == 2 ^ LamportBits

\* the address process_create_sender requires for the sender of eth_address
created_sender_key(rm, eth_address) ==
    get_address_pair(PROGRAM_ID, rm, eth_address).derive.address

\* the accounts a request may name as the sender account
SenderSlots ==
    {created_sender_key(RM1, S1), created_sender_key(RM1, S2), sender_key(RM1, S1)}

\* the accounts whose balance the model follows
Wallets == SenderSlots \cup {REFUND}

\* the accounts a request names as the refund target
RefundTargets == {REFUND, created_sender_key(RM1, S1), created_sender_key(RM1, S2)}

unchanged_accounts(res, rms, sds, lam) ==
    [res |-> res, reward_manager |-> rms, sender_data |-> sds, lamports |-> lam]

\* mutant: the two borrows of one account are both granted
transfer_all_aliased(lam, source, receiver, overflow_checks) ==
    IF source = receiver
    THEN [res |-> "Ok", lamports |-> [lam EXCEPT ![source] = 0]]
    ELSE IF lam[receiver] + lam[source] >= U64Modulus /\ overflow_checks
    THEN [res |-> "Panic", lamports |-> lam]
    ELSE [res |-> "Ok",
          lamports |-> [lam EXCEPT ![receiver] = (lam[receiver] + lam[source]) % U64Modulus,
                                   ![source] = 0]]

\* Processor::transfer_all; overflow_checks tells whether the build panics on
\* the overflow of `**to += **from` or wraps
transfer_all(lam, source, receiver, overflow_checks) ==
    IF source = receiver
    THEN [res |-> "AccountBorrowFailed", lamports |-> lam]
    ELSE IF lam[receiver] + lam[source] >= U64Modulus /\ overflow_checks
    THEN [res |-> "Panic", lamports |-> lam]
    ELSE [res |-> "Ok",
          lamports |-> [lam EXCEPT ![receiver] = (lam[receiver] + lam[source]) % U64Modulus,
                                   ![source] = 0]]

\* mutant: an initialized registry is initialized again
process_init_instruction_again(rms, sds, lam, program_id, rm_key, token_account, manager_key, athority_key, votes, token_cpi) ==
    IF get_base_address(rm_key, program_id).address # athority_key
    THEN unchanged_accounts("InvalidAccountData", rms, sds, lam)
    ELSE IF token_cpi # "Ok"
    THEN unchanged_accounts(token_cpi, rms, sds, lam)
    ELSE [res |-> "Ok",
          reward_manager |->
              [rms EXCEPT ![rm_key] = RewardManager(token_account, manager_key, votes)],
          sender_data |-> sds, lamports |-> lam]

\* Processor::process_init_instruction; token_cpi is the result of the
\* spl_token initialize_account invocation
process_init_instruction(rms, sds, lam, program_id, rm_key, token_account, manager_key, athority_key, votes, token_cpi) ==
    IF rms[rm_key].is_initialized
    THEN unchanged_accounts("AccountAlreadyInitialized", rms, sds, lam)
    ELSE IF get_base_address(rm_key, program_id).address # athority_key
    THEN unchanged_accounts("InvalidAccountData", rms, sds, lam)
    ELSE IF token_cpi # "Ok"
    THEN unchanged_accounts(token_cpi, rms, sds, lam)
    ELSE [res |-> "Ok",
          reward_manager |->
              [rms EXCEPT ![rm_key] = RewardManager(token_account, manager_key, votes)],
          sender_data |-> sds, lamports |-> lam]

\* system_instruction::create_account_with_seed, invoked with the signature of
\* the base derived from the registry: the new account must not be in use and
\* the base account passed must be the one the seeds sign for
create_account_with_seed_cpi(sds, lam, to_key, base, authority_key) ==
    IF authority_key # base THEN "MissingRequiredSignature"
    ELSE IF lam[to_key] > 0 \/ sds[to_key] # NoData THEN "AccountAlreadyInUse"
    ELSE "Ok"

\* Processor::process_create_sender
process_create_sender(rms, sds, lam, program_id, eth_address, rm_key, manager_key, authority_key, sender_info_key) ==
    IF ~rms[rm_key].is_initialized
    THEN unchanged_accounts("UninitializedAccount", rms, sds, lam)
    ELSE IF rms[rm_key].manager # manager_key
    THEN unchanged_accounts("IncorectManagerAccount", rms, sds, lam)
    ELSE LET pair == get_address_pair(program_id, rm_key, eth_address) IN
         IF pair.err # "Ok" THEN unchanged_accounts(pair.err, rms, sds, lam)
         ELSE IF sender_info_key # pair.derive.address
         THEN unchanged_accounts("IncorectSenderAccount", rms, sds, lam)
         ELSE LET cpi == create_account_with_seed_cpi(sds, lam, sender_info_key,
                                                      pair.base.address, authority_key)
              IN  IF cpi # "Ok" THEN unchanged_accounts(cpi, rms, sds, lam)
                  ELSE [res |-> "Ok", reward_manager |-> rms,
                        sender_data |->
                            [sds EXCEPT ![sender_info_key] =
                                 SenderAccount(manager_key, eth_address, NO_OPERATOR)],
                        lamports |-> [lam EXCEPT ![sender_info_key] = RentMinimum]]

\* mutant: the balance is swept before the manager is checked
process_delete_sender_sweeps_first(rms, sds, lam, rm_key, manager_key, sender_info_key, refunder_key, overflow_checks) ==
    IF sds[sender_info_key] = NoData
    THEN unchanged_accounts("BorshIoError", rms, sds, lam)
    ELSE IF sds[sender_info_key].reward_manager # rm_key
    THEN unchanged_accounts("IncorectRewardManager", rms, sds, lam)
    ELSE LET t == transfer_all(lam, sender_info_key, refunder_key, overflow_checks) IN
         IF t.res # "Ok"
         THEN [res |-> t.res, reward_manager |-> rms, sender_data |-> sds, lamports |-> lam]
         ELSE IF rms[rm_key].manager # manager_key
         THEN [res |-> "IncorectManagerAccount", reward_manager |-> rms,
               sender_data |-> sds, lamports |-> t.lamports]
         ELSE [res |-> "Ok", reward_manager |-> rms, sender_data |-> sds,
               lamports |-> t.lamports]

\* Processor::process_delete_sender
process_delete_sender(rms, sds, lam, rm_key, manager_key, sender_info_key, refunder_key, overflow_checks) ==
    IF sds[sender_info_key] = NoData
    THEN unchanged_accounts("BorshIoError", rms, sds, lam)
    ELSE IF sds[sender_info_key].reward_manager # rm_key
    THEN unchanged_accounts("IncorectRewardManager", rms, sds, lam)
    ELSE IF rms[rm_key].manager # manager_key
    THEN unchanged_accounts("IncorectManagerAccount", rms, sds, lam)
    ELSE LET t == transfer_all(lam, sender_info_key, refunder_key, overflow_checks) IN
         [res |-> t.res, reward_manager |-> rms, sender_data |-> sds,
          lamports |-> t.lamports]

----------------------------------------------------------------------------
(* The requests.  caller is the identity that signs the transaction; the   *)
(* handlers read the keys of the accounts passed, never who signed.        *)

ManagerKeys == {MANAGER, RM1}

\* who signs a request and the key of the account passed as the manager's: a
\* manager passing its own account, or an intruder passing a manager's
Requesters ==
    {[caller |-> k, manager |-> k] : k \in ManagerKeys}
    \cup {[caller |-> INTRUDER, manager |-> k] : k \in ManagerKeys}

VerifierIdle ==
    /\ instructions = <<>>
    /\ signers = <<>>
    /\ operators = {}
    /\ bot_oracle = SenderAccount(RM1, ORACLE, O3)
    /\ transfer_data = T1
    /\ signer_accounts = <<>>
    /\ aresult = "none"
    /\ vresult = "done"

Init ==
    /\ reward_manager = [r \in Regs |-> UninitializedRewardManager]
    /\ sender_data = [k \in SenderSlots |-> NoData]
    /\ lamports \in {[k \in Wallets |-> IF k = REFUND THEN b ELSE 0] :
                        b \in {1, U64Modulus - 1}}
    /\ last = [op |-> "none"]
    /\ VerifierIdle

commit(r) ==
    /\ reward_manager' = r.reward_manager
    /\ sender_data' = r.sender_data
    /\ lamports' = r.lamports

InitRewardManager ==
    \E rm_key \in Regs, token_account \in {TOKEN_ACCOUNT, TOKEN_ACCOUNT_2},
       manager_key \in ManagerKeys, votes \in 0..MaxVotes,
       athority_key \in {get_base_address(RM1, PROGRAM_ID).address,
                         get_base_address(PROGRAM_ID, RM1).address},
       token_cpi \in {"Ok", "TokenError"} :
        LET r == process_init_instruction(reward_manager, sender_data, lamports,
                     PROGRAM_ID, rm_key, token_account, manager_key, athority_key,
                     votes, token_cpi)
        IN  /\ commit(r)
            /\ last' = [op |-> "InitRewardManager", rm |-> rm_key,
                        token_account |-> token_account, manager |-> manager_key,
                        athority |-> athority_key, min_votes |-> votes, res |-> r.res]
            /\ UNCHANGED verifier_vars

CreateSender ==
    \E rq \in Requesters, rm_key \in Regs, eth_address \in {S1, S2},
       authority_key \in {get_base_address(PROGRAM_ID, RM1).address, INTRUDER},
       sender_info_key \in SenderSlots, operator \in {O1} :
        LET r == process_create_sender(reward_manager, sender_data, lamports, PROGRAM_ID,
                     eth_address, rm_key, rq.manager, authority_key, sender_info_key)
        IN  /\ commit(r)
            /\ last' = [op |-> "CreateSender", caller |-> rq.caller, rm |-> rm_key,
                        eth_address |-> eth_address, manager |-> rq.manager,
                        authority |-> authority_key, sender |-> sender_info_key,
                        operator |-> operator, res |-> r.res]
            /\ UNCHANGED verifier_vars

DeleteSender ==
    \E rq \in Requesters, rm_key \in Regs, sender_info_key \in SenderSlots,
       refunder_key \in RefundTargets :
      \E overflow_checks \in
             IF lamports[sender_info_key] + lamports[refunder_key] >= U64Modulus
             THEN BOOLEAN ELSE {FALSE} :
        LET r == process_delete_sender(reward_manager, sender_data, lamports, rm_key,
                     rq.manager, sender_info_key, refunder_key, overflow_checks)
        IN  /\ commit(r)
            /\ last' = [op |-> "DeleteSender", caller |-> rq.caller, rm |-> rm_key,
                        manager |-> rq.manager, sender |-> sender_info_key,
                        refunder |-> refunder_key,
                        source_before |-> lamports[sender_info_key],
                        receiver_before |-> lamports[refunder_key], res |-> r.res]
            /\ UNCHANGED verifier_vars

Next == InitRewardManager \/ CreateSender \/ DeleteSender

Spec == Init /\ [][Next]_vars

----------------------------------------------------------------------------
(* What a batch attests, read off the wire layout of a secp256k1            *)
(* instruction: bytes [12,32) are the identity, bytes [97,end) the payload. *)

HasIdentity(data, a) ==
    /\ Len(data) >= eth_address_offset + EthAddrLen
    /\ SubSeq(data, eth_address_offset + 1, eth_address_offset + EthAddrLen) = a

HasPayload(data, m) ==
    /\ Len(data) >= message_data_offset
    /\ SubSeq(data, message_data_offset + 1, Len(data)) = m

ProofsOf(a) == {i \in DOMAIN instructions : HasIdentity(instructions[i], a)}

SendersMsg == senders_message(transfer_data, bot_oracle)
OracleMsg == bot_oracle_message(transfer_data)

\* the identities whose signature a transfer needs
Expected == Range(signers) \cup {bot_oracle.eth_address}

ExpectedMessage(a) == IF a = bot_oracle.eth_address THEN OracleMsg ELSE SendersMsg

HasValidProof(a) ==
    \E i \in ProofsOf(a) : HasPayload(instructions[i], ExpectedMessage(a))

\* the batch is exactly one content-valid proof of each identity of ids
Covers(ids) ==
    /\ Len(instructions) = Cardinality(ids)
    /\ \A a \in ids : HasValidProof(a)

NoDuplicates(seq) == \A i, j \in DOMAIN seq : i # j => seq[i] # seq[j]

BadOracleProof(i) ==
    /\ HasIdentity(instructions[i], bot_oracle.eth_address)
    /\ ~HasPayload(instructions[i], OracleMsg)

BadSenderProof(i) ==
    /\ \E a \in Range(signers) : HasIdentity(instructions[i], a)
    /\ ~HasPayload(instructions[i], SendersMsg)

----------------------------------------------------------------------------
(* Claims on the transfer verifier called on arbitrary arguments (SpecVerify) *)

\* C1: if the transfer verifier returns Ok, every expected sender is the identity
\* of exactly one proof of the batch, whose payload is the senders' message, and
\* exactly one proof has the oracle identity, with the bot-oracle message as payload.
C1_Soundness ==
    vresult = "Ok" =>
        /\ \A a \in Range(signers) :
              /\ Cardinality(ProofsOf(a)) = 1
              /\ \A i \in ProofsOf(a) : HasPayload(instructions[i], SendersMsg)
        /\ Cardinality(ProofsOf(bot_oracle.eth_address)) = 1
        /\ \A i \in ProofsOf(bot_oracle.eth_address) :
              HasPayload(instructions[i], OracleMsg)

\* a verification of two senders and the oracle, with an ignored proof beside, passes
C1_Witness ==
    /\ vresult = "Ok"
    /\ Len(signers) = 2
    /\ Len(instructions) = 3

\* the expected senders are a set that excludes the oracle, and the oracle's
\* operator is not among the seeded ones
C2_Context ==
    /\ NoDuplicates(signers)
    /\ bot_oracle.eth_address \notin Range(signers)
    /\ bot_oracle.operator \notin operators

\* C2: the count check is an equality: a batch of exactly one content-valid proof
\* per expected sender plus one content-valid oracle proof passes (also with no
\* expected sender); that batch less any one proof fails SignatureVerificationFailed.
C2_ExactCount ==
    (vresult # "none" /\ C2_Context) =>
        /\ Covers(Expected) => vresult = "Ok"
        /\ \A missing \in Expected :
              Covers(Expected \ {missing}) => vresult = "SignatureVerificationFailed"

\* senders S1, S2 expected, one of the three proofs is left out
C2_Witness ==
    /\ C2_Context
    /\ Len(signers) = 2
    /\ \E missing \in Expected : Covers(Expected \ {missing})
    /\ vresult = "SignatureVerificationFailed"

\* every proof of the batch is a whole instruction, and those of an expected
\* sender or of the oracle carry that identity's message
EachProofValid ==
    \A i \in DOMAIN instructions :
        /\ Len(instructions[i]) >= message_data_offset
        /\ ~BadOracleProof(i)
        /\ ~BadSenderProof(i)

\* C3: a batch in which an expected sender or the oracle is the identity of two
\* proofs, at any two positions, fails with SignCollission, even if both
\* signatures are individually valid (stated for the batches in which every
\* signature is individually valid, so that no other error comes first).
C3_DuplicateIsSignCollision ==
    (vresult # "none" /\ C2_Context /\ EachProofValid) =>
        \A a \in Expected : Cardinality(ProofsOf(a)) >= 2 => vresult = "SignCollission"

\* C7: a proof of the oracle identity whose payload is not the bot-oracle message,
\* or of an expected sender whose payload is not the senders' message, makes the
\* verification fail, whatever else the batch holds.
C7_BadPayloadFails ==
    (vresult # "none"
       /\ \E i \in DOMAIN instructions : BadOracleProof(i) \/ BadSenderProof(i))
    => vresult # "Ok"

\* the senders' message replayed under the oracle identity, after a valid sender proof
C7_Witness ==
    /\ vresult = "SignatureVerificationFailed"
    /\ Len(instructions) >= 2
    /\ HasValidProof(S1) /\ S1 \in Range(signers)
    /\ \E i \in DOMAIN instructions :
          BadOracleProof(i) /\ HasPayload(instructions[i], SendersMsg)

\* the rearrangements of a batch
Perms(n) == {f \in [1..n -> 1..n] : \A i, j \in 1..n : i # j => f[i] # f[j]}

Permuted(batch, f) == [i \in 1..Len(batch) |-> batch[f[i]]]

\* the verifier's result on a batch, the other arguments being those of the call
ResultOn(batch) ==
    build_verify_secp_transfer(bot_oracle, transfer_data, batch, signers, operators)

\* every proof of the batch has the whole fixed header
WholeProofs == \A i \in DOMAIN instructions : ~validate_panics(instructions[i])

\* C13: the verifier's result on every rearrangement of the batch is its result
\* on the batch (stated for the batches of whole proofs).
C13_OrderIndependent ==
    (vresult # "none" /\ WholeProofs) =>
        \A f \in Perms(Len(instructions)) : ResultOn(Permuted(instructions, f)) = vresult

\* C13 as amended: every rearrangement of the batch is accepted if and only if
\* the batch is.
C13_SameVerdict ==
    vresult # "none" =>
        \A f \in Perms(Len(instructions)) :
            (ResultOn(Permuted(instructions, f)) = "Ok") <=> (vresult = "Ok")

\* a batch of three different proofs is accepted, as are its five rearrangements
C13_Witness ==
    /\ vresult = "Ok"
    /\ Len(instructions) = 3
    /\ Cardinality(Range(instructions)) = 3
    /\ \A f \in Perms(3) : ResultOn(Permuted(instructions, f)) = "Ok"

\* a proof whose identity is neither the oracle's nor an expected sender's
IsUnknown(data) ==
    /\ ~get_signer_panics(data)
    /\ get_signer_from_secp_instruction(data) \notin Expected

WithoutUnknown == SelectSeq(instructions, LAMBDA data : ~IsUnknown(data))

\* C14: the verifier's result, and the number of verifications it counted, are
\* those of the batch with every proof of an unknown identity taken out.
C14_UnknownIgnored ==
    vresult # "none" =>
        /\ vresult = ResultOn(WithoutUnknown)
        /\ transfer_final(bot_oracle, transfer_data, instructions, signers,
                          operators).successful_verifications
           = transfer_final(bot_oracle, transfer_data, WithoutUnknown, signers,
                            operators).successful_verifications

\* a sender proof and the oracle proof are accepted with an unknown identity's
\* proof between them
C14_Witness ==
    /\ vresult = "Ok"
    /\ Len(instructions) = 3
    /\ Len(signers) = 1
    /\ IsUnknown(instructions[2])

\* C19: the verification of a batch of blobs of any length ends with Ok or with
\* an error of the enumeration, never with an abort.
C19_TypedErrors == vresult # "Panic"

----------------------------------------------------------------------------
(* Claims on a verification fed by get_eth_addresses (SpecQuorum) *)

registry == reward_manager[RM1]

ValidSenderAccount(acct) ==
    /\ acct.data # NoData
    /\ acct.data.is_initialized
    /\ acct.owner = PROGRAM_ID
    /\ acct.key = sender_key(RM1, acct.data.eth_address)

AllValidAccounts ==
    /\ \A i \in DOMAIN signer_accounts : ValidSenderAccount(signer_accounts[i])
    /\ \A i, j \in DOMAIN signer_accounts :
          i # j => signer_accounts[i].data.eth_address # signer_accounts[j].data.eth_address

SenderOperators == {signer_accounts[i].data.operator : i \in DOMAIN signer_accounts}

\* C4: two expected sender records with one operator make get_eth_addresses fail
\* OperatorCollision; an oracle whose operator is an expected sender's makes the
\* verification fail, with OperatorCollision when the batch is the complete
\* content-valid one; so after Ok the operators of the expected senders and of the
\* oracle are pairwise distinct.
C4_OperatorsDistinct ==
    /\ (aresult # "none" /\ AllValidAccounts
          /\ \E i, j \in DOMAIN signer_accounts :
                i # j /\ signer_accounts[i].data.operator = signer_accounts[j].data.operator)
       => aresult = "OperatorCollision"
    /\ (vresult # "none" /\ bot_oracle.operator \in SenderOperators)
       => /\ vresult # "Ok"
          /\ Covers(Expected) => vresult = "OperatorCollision"
    /\ vresult = "Ok"
       => /\ bot_oracle.operator \notin SenderOperators
          /\ \A i, j \in DOMAIN signer_accounts :
                i # j => signer_accounts[i].data.operator # signer_accounts[j].data.operator

\* S1 (operator O1), S2 and an oracle of operator O1 all sign validly
C4_Witness ==
    /\ vresult = "OperatorCollision"
    /\ Len(signer_accounts) = 2
    /\ bot_oracle.operator \in SenderOperators
    /\ Covers(Expected)

\* the expected senders whose valid signature is in the batch
CountedSenders == {a \in Range(signers) : HasValidProof(a)}

\* C5: a verification that returns Ok counted the valid signatures of at least
\* minimum_votes distinct senders, the oracle's aside.
C5_QuorumMet ==
    vresult = "Ok" => Cardinality(CountedSenders) >= registry.min_votes

\* C6: with minimum_votes = m >= 1, once m registered senders (and no one else)
\* have each signed the senders' message of the intent, the verification of that
\* intent succeeds.
C6_QuorumSuffices ==
    (vresult # "none"
       /\ registry.min_votes >= 1
       /\ Len(signers) = registry.min_votes
       /\ bot_oracle.operator \notin operators
       /\ Covers(Range(signers)))
    => vresult = "Ok"

----------------------------------------------------------------------------
(* Claims on the registry handlers (Spec).  A step is told by the call it  *)
(* leaves in last'; the accounts before it are the unprimed variables.     *)

\* the base the sender accounts of rm are derived from and signed for
base_of(rm) == get_base_address(PROGRAM_ID, rm).address

\* C8: an add-sender attempt by an identity that is not the registry's manager
\* fails and creates no Sender; the manager's attempt on an initialized registry
\* with the derived target address succeeds and the new Sender's operator is the
\* operator declared in the request.
C8_AddSenderAuthority ==
    [][ last'.op = "CreateSender" =>
          /\ last'.caller # reward_manager[last'.rm].manager
             => (last'.res # "Ok" /\ sender_data' = sender_data)
          /\ (/\ reward_manager[last'.rm].is_initialized
              /\ last'.caller = reward_manager[last'.rm].manager
              /\ last'.manager = last'.caller
              /\ last'.authority = base_of(last'.rm)
              /\ last'.sender \in {sender_key(last'.rm, last'.eth_address),
                                   created_sender_key(last'.rm, last'.eth_address)}
              /\ sender_data[last'.sender] = NoData)
             => (last'.res = "Ok"
                 /\ sender_data'[last'.sender].operator = last'.operator) ]_vars

\* C9: after a successful delete-sender the refund target holds its
\* prior balance plus the sender account's, and the sender account holds zero,
\* for every pair of prior balances.
C9_SweepAddsBalances ==
    [][ (last'.op = "DeleteSender" /\ last'.res = "Ok") =>
          /\ lamports'[last'.refunder] = lamports[last'.refunder] + lamports[last'.sender]
          /\ lamports'[last'.sender] = 0 ]_vars

\* C10: on an initialized registry every InitRegistry fails with
\* AccountAlreadyInitialized, and no init, add-sender or delete-sender, successful
\* or failed, changes its minimum_votes, manager or token custody reference.
C10_InitOnce ==
    [][ /\ (last'.op = "InitRewardManager" /\ reward_manager[last'.rm].is_initialized)
           => last'.res = "AccountAlreadyInitialized"
        /\ \A r \in Regs :
              reward_manager[r].is_initialized => reward_manager'[r] = reward_manager[r]
      ]_vars

\* a second InitRegistry with other parameters and the expected authority was refused
C10_Witness ==
    /\ last.op = "InitRewardManager"
    /\ last.res = "AccountAlreadyInitialized"
    /\ last.athority = get_base_address(last.rm, PROGRAM_ID).address
    /\ last.min_votes # reward_manager[last.rm].min_votes
    /\ last.manager # reward_manager[last.rm].manager
    /\ last.token_account # reward_manager[last.rm].token_account

\* the Sender record a request names, before the step
named_sender == sender_data[last'.sender]

\* C11: a delete-sender on a record whose owning registry is not the registry
\* named fails IncorectRewardManager; one whose manager account is not the
\* registry's manager fails IncorectManagerAccount; neither moves a balance; and
\* a balance only moves on a request made by the registry's manager against the
\* sender's own registry.
C11_DeleteAuthorization ==
    [][ (last'.op = "DeleteSender" /\ named_sender # NoData) =>
          /\ named_sender.reward_manager # last'.rm
             => (last'.res = "IncorectRewardManager" /\ lamports' = lamports)
          /\ (named_sender.reward_manager = last'.rm
                /\ last'.manager # reward_manager[last'.rm].manager)
             => (last'.res = "IncorectManagerAccount" /\ lamports' = lamports)
          /\ lamports' # lamports
             => (/\ last'.caller = reward_manager[last'.rm].manager
                 /\ named_sender.reward_manager = last'.rm) ]_vars

\* the Sender records of attester identity eth_address in the accounts sds
records_of(sds, eth_address) ==
    {k \in DOMAIN sds : sds[k] # NoData /\ sds[k].eth_address = eth_address}

\* C12: the registry never holds two Sender records of one attester identity; an
\* add-sender by the manager whose target is not the address derived from
\* (registry, fixed prefix, attester identity) fails IncorectSenderAccount; an
\* add-sender for an identity that has a record fails and changes no record.
C12_SenderUniqueness ==
    [][ /\ \A a \in {S1, S2} : Cardinality(records_of(sender_data', a)) <= 1
        /\ (/\ last'.op = "CreateSender"
            /\ reward_manager[last'.rm].is_initialized
            /\ last'.manager = reward_manager[last'.rm].manager
            /\ last'.authority = base_of(last'.rm)
            /\ last'.sender # sender_key(last'.rm, last'.eth_address))
           => last'.res = "IncorectSenderAccount"
        /\ (last'.op = "CreateSender" /\ records_of(sender_data, last'.eth_address) # {})
           => (last'.res # "Ok" /\ sender_data' = sender_data) ]_vars

\* C16: a handler that returns an error leaves the registry record, every Sender
\* record and every balance as they were.
C16_NoPartialState ==
    [][ (last'.op \in {"InitRewardManager", "CreateSender", "DeleteSender"}
           /\ last'.res # "Ok")
        => (/\ reward_manager' = reward_manager
            /\ sender_data' = sender_data
            /\ lamports' = lamports) ]_vars

\* a delete-sender naming a wrong manager was refused on a funded Sender
C16_Witness ==
    /\ last.op = "DeleteSender"
    /\ last.res = "IncorectManagerAccount"
    /\ sender_data[last.sender] # NoData
    /\ lamports[last.sender] > 0
    /\ last.refunder # last.sender

\* C20: a delete-sender by the registry's manager, naming the registry a Sender
\* was added under, succeeds on that Sender (the refund target being another
\* account whose balance has room for the sweep).
C20_AddThenDelete ==
    [][ (/\ last'.op = "DeleteSender"
         /\ named_sender # NoData
         /\ last'.rm = RM1
         /\ last'.caller = reward_manager[RM1].manager
         /\ last'.manager = reward_manager[RM1].manager
         /\ reward_manager[RM1].manager # RM1
         /\ last'.refunder # last'.sender
         /\ lamports[last'.refunder] + lamports[last'.sender] < U64Modulus)
        => last'.res = "Ok" ]_vars

\* the account a create-sender has just written, as a transfer passes it to
\* get_eth_addresses
created_account ==
    [key |-> last.sender, owner |-> PROGRAM_ID, data |-> sender_data[last.sender]]

\* C21: the address a successful add-sender has created the Sender at is the
\* address derived from (registry, fixed sender prefix, attester identity), and
\* get_eth_addresses for the same registry accepts the Sender.
C21_SenderAddressAgrees ==
    (last.op = "CreateSender" /\ last.res = "Ok") =>
        /\ last.sender = sender_key(last.rm, last.eth_address)
        /\ get_eth_addresses(PROGRAM_ID, last.rm, <<created_account>>).res = "Ok"

\* C22: an InitRegistry succeeds only with the custody authority
\* get_base_address(program identity, registry identity), and with any other
\* authority address it fails with InvalidAccountData (on a registry that is
\* not initialized yet).
C22_CustodyAuthorityIsBase ==
    [][ last'.op = "InitRewardManager" =>
          /\ last'.res = "Ok" => last'.athority = base_of(last'.rm)
          /\ (last'.athority # base_of(last'.rm) /\ ~reward_manager[last'.rm].is_initialized)
             => last'.res = "InvalidAccountData" ]_vars

\* C23: a delete-sender, successful or failed, leaves the sum of the balances
\* of the sender account and the refund target as it was when that sum fits in
\* a u64; when the refund target is the sender account itself the call fails
\* and every balance is unchanged.
C23_DeleteConservesValue ==
    [][ last'.op = "DeleteSender" =>
          /\ (/\ last'.refunder # last'.sender
              /\ lamports[last'.sender] + lamports[last'.refunder] < U64Modulus)
             => lamports'[last'.sender] + lamports'[last'.refunder]
                    = lamports[last'.sender] + lamports[last'.refunder]
          /\ last'.refunder = last'.sender
             => (last'.res # "Ok" /\ lamports' = lamports) ]_vars

\* a delete-sender by the manager that names a funded sender account as its
\* own refund target has failed on the second borrow
C23_Witness ==
    /\ last.op = "DeleteSender"
    /\ last.refunder = last.sender
    /\ last.res = "AccountBorrowFailed"
    /\ lamports[last.sender] > 0

----------------------------------------------------------------------------
(* Claims on the add-sender verifier (SpecAddSender) *)

MutationMsg == add_sender_message(last.reward_manager_key, last.new_sender)

\* the identity of the i-th proof
IdentityAt(i) == get_signer_from_secp_instruction(instructions[i])

\* the i-th proof is one the add-sender verifier must refuse
Undeclared(i) == IdentityAt(i) \notin Range(signers)
SignsAgain(i) == \E j \in 1..(i - 1) : IdentityAt(j) = IdentityAt(i)
OtherPayload(i) == ~HasPayload(instructions[i], MutationMsg)
Refused(i) == Undeclared(i) \/ SignsAgain(i) \/ OtherPayload(i)

\* C15: if the add-sender verifier returns Ok, every declared signer has a proof
\* over registry || new sender and no identity has two proofs; and on a batch of
\* whole proofs whose first refused proof is the i-th, the result is WrongSigner
\* if its identity is not declared, SignCollission if that identity signed before,
\* SignatureVerificationFailed if its payload is another.
C15_AddSenderVerifier ==
    vresult # "none" =>
        /\ vresult = "Ok" =>
              /\ \A a \in Range(signers) :
                    \E i \in ProofsOf(a) : HasPayload(instructions[i], MutationMsg)
              /\ \A a \in Range(signers) \cup {UNKNOWN} : Cardinality(ProofsOf(a)) <= 1
        /\ WholeProofs =>
              \A i \in DOMAIN instructions :
                  (Refused(i) /\ \A j \in 1..(i - 1) : ~Refused(j)) =>
                      vresult = IF Undeclared(i) THEN "WrongSigner"
                                ELSE IF SignsAgain(i) THEN "SignCollission"
                                ELSE "SignatureVerificationFailed"

----------------------------------------------------------------------------
(* Claims on the signature extraction (SpecExtract) *)

\* the secp256k1 instructions placed before the instruction being processed
FoundBefore ==
    SelectSeq(SubSeq(last.tx, 1, last.index_current_instruction),
              LAMBDA ix : ix.program_id = SECP256K1_PROGRAM)

\* C17: get_secp_instructions returns the secp256k1 instructions placed before
\* the current one, in their order, when their number is the declared count, and
\* otherwise (fewer or more) fails Secp256InstructionMissing and returns none.
C17_ExactExtraction ==
    aresult # "none" =>
        IF Len(FoundBefore) = last.necessary_instructions_count
        THEN /\ aresult = "Ok"
             /\ instructions = [i \in 1..Len(FoundBefore) |-> FoundBefore[i].data]
        ELSE /\ aresult = "Secp256InstructionMissing"
             /\ instructions = <<>>

\* two secp256k1 instructions stand before the current one and one is declared
C17_Witness ==
    /\ aresult = "Secp256InstructionMissing"
    /\ Len(FoundBefore) = 2
    /\ last.necessary_instructions_count = 1

----------------------------------------------------------------------------
(* Claims on the message encoding (SpecCodec) *)

\* C18: a senders' message never equals a bot-oracle message, of the same or of
\* another intent; two senders' messages are equal only for equal recipient,
\* amount, id and oracle identity, two bot-oracle messages only for equal
\* recipient, amount and id.
C18_NoDelimiterAmbiguity ==
    last.op = "Built" =>
        /\ last.senders_message # last.bot_oracle_message
        /\ last.senders_message # last.other_bot_oracle_message
        /\ last.other_senders_message # last.bot_oracle_message
        /\ last.senders_message = last.other_senders_message
           => (/\ transfer_data = last.transfer_data
               /\ bot_oracle.eth_address = last.bot_oracle.eth_address)
        /\ last.bot_oracle_message = last.other_bot_oracle_message
           => transfer_data = last.transfer_data

====
